---- MODULE Spec2Model ----
(***************************************************************************)
(* Session coordination and signaling relay of the podcast meeting app.    *)
(*                                                                         *)
(* The relay is the Socket.IO server of server/README.md (lines 447-605):  *)
(* two process-wide maps, rooms and participants, and one handler per      *)
(* client event.  The Socket.IO adapter is modelled by ioRooms: every      *)
(* socket sits in the room named by its own id, socket.join/leave change   *)
(* the membership of a named room, socket.to(r) addresses every socket of  *)
(* room r except the sender and io.to(r) every socket of room r.           *)
(***************************************************************************)
EXTENDS Integers, Sequences, FiniteSets, TLC

\* ------------------------------------------------------------------ bounds
\* Keys made by generateMeetingKey.
GeneratedKeys == {"abc-def-ghi", "abc-xyz-uvw"}

\* Socket ids the relay hands out (socket.id).
Conn == {"c1", "c2", "c3"}

\* meetingKey strings a client puts in a request: the generated keys and one
\* string that is also a socket id (the relay does not validate the payload).
MeetingKeys == GeneratedKeys \cup {"c1"}

\* Names of Socket.IO rooms: one per socket id, one per joined key.
RoomNames == Conn \cup MeetingKeys

\* userInfo.userId values of a join-room payload; None is the falsy case.
None == "none"
UserIds == {"u1", "u2"}

\* The meeting the MeetingRoom clients of the mesh open.
MeshKeys == {"abc-def-ghi"}

\* Number of client requests of any kind the relay handles in one run.
MaxReq == 3

\* Number of join-room, leave-room and disconnect requests in one run of
\* the membership protocol.
MaxMemberReq == 4

\* Number of requests the clients of the mesh make of the relay
MaxMeshReq == 4

\* Number of requests the two clients of a pair make of the relay
MaxPairReq == 7

\* ICE candidates a transport gathers for its peer
MaxIce == 2

\* Requests the relay handles in a run of IceSpec.
MaxIceReq == 7

\* Requests the relay handles in a run of UnmountSpec.
MaxUnmountReq == 5

\* Number of requests the clients make of the relay in one session
MaxSessionReq == 4

\* Number of join-room and disconnect requests with free media flags
MaxFlagReq == 3

\* Number of requests the clients make of the relay when they record
MaxRoomReq == 4

\* ICE candidates the transports of a meeting gather, all together
MaxCandidates == 1

\* Number of directed messages the sockets emit on the wire
MaxSent == 3

\* History counters stop at this value ("more than once").
Many == 2

\* ------------------------------------------------------------------- state
VARIABLES
  sockets,       \* socket id -> "idle" (not yet assigned) | "open" | "closed"
  ioRooms,       \* Socket.IO adapter: room name -> set of socket ids
  rooms,         \* const rooms = new Map(): meetingKey -> Set(socket id)
  participants,  \* const participants = new Map(): socket id -> record
  lastReq,       \* the request handled by the latest relay step
  lastEmit,      \* the events that step emitted: set of [to, ev, ...]
  memberOf,      \* history: keys joined and not left since, per open socket
  fresh,         \* history: sockets with no leave-room since their last join
  owed,          \* history: r -> x -> departures of x from a room r is in
  leftSeen,      \* history: r -> x -> user-left events naming x sent to r
  nreq,          \* number of requests handled so far
  joinHist,      \* history: per socket, its joins, its latest snapshot and
                 \* the user-joined events sent to it
  cState,        \* MeetingRoom instance: "init" | "joined" | "gone"
  cUser,         \* useAuth().user.id of the instance
  cKey,          \* useParams().meetingKey of the instance
  inbox,         \* events received on the instance's socket, not yet handled
  cParticipants, \* keys of the participants state Map
  peerConnections, \* peerConnectionsRef: socket id -> signaling state
  timers,        \* pending setTimeout(createPeerConnection) calls
  tasks,         \* async continuations waiting on a WebRTC promise, and
                 \* ICE candidates waiting for their retry timeout
  lastHandled,   \* history: the latest user-left a client handled
  gotLeft,       \* history: r -> x -> user-left events naming x handled by r
  dropped,       \* history: instances whose socket closed without cleanup
  outbox,        \* per socket: requests emitted, not yet handled by the relay
  nsent,         \* per socket: number of requests emitted into outbox
  candidates,    \* per instance and peer: ICE candidates sent to the peer
  cRecording,    \* isRecording state of the instance
  cMedia,        \* localStream: "none" | "live" | "stopped" (tracks stopped)
  cStatus,       \* "connecting" | "connected" (connectionStatus) |
                 \* "dashboard" (after navigate('/dashboard'))
  cEntry,        \* history: the step of initializeMeeting that failed, if any
  cSteps,        \* history: the steps the instance's cleanup() has performed
  cSharing,      \* isScreenSharing state of the instance
  cFailed,       \* history: per peer, 'failed' reports of its transport
  cRestarts,     \* history: per peer, pc.restartIce() calls
  iceWaiting,    \* candidates held by a setTimeout(handleIceCandidate, 1000)
  cApplied,      \* per peer: candidates given to addIceCandidate, in order
  cTracks,       \* per peer: the video track the transport's sender carries,
                 \* "none" | "camera" | "screen"
  cClosure,      \* localStream as the closure of the listeners sees it
  cCaptures,     \* screen captures whose track is live, onended armed
  iceTurn,       \* the setTimeout calls that held a candidate again, modulo 2
  cPending,      \* the initializeMeeting run that is at an await, if any
  cVia           \* history: the callers that ran cleanup() for the instance

relayVars == <<sockets, ioRooms, rooms, participants, lastReq, lastEmit>>

historyVars == <<memberOf, fresh, owed, leftSeen, nreq, joinHist>>

coreSession == <<cMedia, cStatus, cEntry, cSteps, cSharing, cFailed,
                 cRestarts, iceWaiting, cApplied>>

shareVars == <<cTracks, cClosure, cCaptures>>

lateVars == <<iceTurn, cPending, cVia>>

sessionVars == <<coreSession, shareVars, lateVars>>

clientVars == <<cState, cUser, cKey, inbox, cParticipants, peerConnections,
                timers, tasks, lastHandled, gotLeft, dropped, outbox, nsent,
                candidates, cRecording, sessionVars>>

vars == <<relayVars, historyVars, clientVars>>

\* ----------------------------------------------------------- JS Map helpers
MapSet(m, k, v) == [x \in DOMAIN m \cup {k} |-> IF x = k THEN v ELSE m[x]]

MapDelete(m, k) == [x \in DOMAIN m \ {k} |-> m[x]]

EmptyMap == [x \in {} |-> {}]

\* ------------------------------------------------------ Socket.IO adapter
\* socket.join(r)
IoJoin(io, s, r) == [io EXCEPT ![r] = @ \cup {s}]

\* socket.leave(r)
IoLeave(io, s, r) == [io EXCEPT ![r] = @ \ {s}]

\* a closing socket leaves every room before its 'disconnect' handler runs
IoLeaveAll(io, s) == [r \in RoomNames |-> io[r] \ {s}]

\* socket.to(r): every socket of room r except the sender
\* A relay that notifies with socket.emit, which reaches the sender alone.
SocketToSelf(io, s, r) == io[r] \cap {s}

SocketTo(io, s, r) == io[r] \ {s}

\* io.to(r): every socket of room r
IoTo(io, r) == io[r]

\* ---------------------------------------------------------------- messages
\* One emitted event, as one recipient receives it.
Msg(to, ev, from, userId, users, body) ==
  [to |-> to, ev |-> ev, from |-> from, userId |-> userId,
   users |-> users, body |-> body]

Req(type, s, key, to, userId, body) ==
  [type |-> type, sock |-> s, key |-> key, to |-> to,
   userId |-> userId, body |-> body]

DirectedTypes == {"webrtc-offer", "webrtc-answer", "webrtc-ice-candidate"}

\* client event -> the room event the relay broadcasts for it
RoomEventOf(type) ==
  CASE type = "chat-message" -> "chat-message"
    [] type = "start-screen-share" -> "user-started-screen-share"
    [] type = "stop-screen-share" -> "user-stopped-screen-share"
    [] type = "start-recording" -> "recording-started"
    [] type = "stop-recording" -> "recording-stopped"

RoomEventTypes ==
  {"chat-message", "start-screen-share", "stop-screen-share",
   "start-recording", "stop-recording"}

\* x || y on a string-valued field of a join-room payload (None is falsy)
OrElse(x, y) == IF x = None THEN y ELSE x

\* x || y on a boolean-valued field of a join-room payload
OrFlag(x, y) == IF x THEN x ELSE y

\* The participant record join-room stores.
Participant(s, key, userInfo) ==
  [socketId |-> s,
   userId |-> OrElse(userInfo.userId, s),
   user |-> OrElse(userInfo.user, "Anonymous"),
   audioEnabled |-> OrFlag(userInfo.audioEnabled, TRUE),
   videoEnabled |-> OrFlag(userInfo.videoEnabled, TRUE),
   isScreenSharing |-> FALSE,
   meetingKey |-> key]

\* join-room payloads: userId and user come from the same client-side user
\* object (or are missing), the two media flags are free.
UserInfos ==
  {[userId |-> u, user |-> u, audioEnabled |-> a, videoEnabled |-> v] :
     u \in {"u1", None}, a \in BOOLEAN, v \in BOOLEAN}

\* The payloads with both flags on, as a MeetingRoom that has just mounted
\* sends them (isAudioEnabled and isVideoEnabled start as true).
StockInfos == {i \in UserInfos : i.audioEnabled /\ i.videoEnabled}

\* The sender id a client writes inside the payload of a directed message.
Bodies == {"c1"}

\* Array.from(rooms.get(key)).map(id => participants.get(id)).filter(Boolean)
RoomParticipants(rms, parts, key) ==
  {parts[x] : x \in rms[key] \cap DOMAIN parts}

\* rooms.get(key).delete(s); if (size === 0) rooms.delete(key)
\* A registry that strikes one member off the room at each leave-room, the
\* leaver if it is listed and any other member if it is not.
RemoveSomeMember(rms, key, s) ==
  IF key \in DOMAIN rms
    THEN LET gone == IF s \in rms[key] THEN s ELSE CHOOSE x \in rms[key] : TRUE
         IN IF rms[key] \ {gone} = {}
              THEN MapDelete(rms, key)
              ELSE MapSet(rms, key, rms[key] \ {gone})
    ELSE rms

RemoveFromRoom(rms, key, s) ==
  IF key \in DOMAIN rms
    THEN IF rms[key] \ {s} = {}
           THEN MapDelete(rms, key)
           ELSE MapSet(rms, key, rms[key] \ {s})
    ELSE rms

\* A join that adds the socket only when it has just created the room.
AddToNewRoomOnly(rms, key, s) ==
  IF key \in DOMAIN rms THEN rms ELSE MapSet(rms, key, {s})

\* if (!rooms.has(key)) rooms.set(key, new Set()); rooms.get(key).add(s)
AddToRoom(rms, key, s) ==
  IF key \in DOMAIN rms
    THEN MapSet(rms, key, rms[key] \cup {s})
    ELSE MapSet(rms, key, {s})

\* ---------------------------------------------------------------- history
\* The bookkeeping below records what the requests were, in the words of the
\* membership protocol; no handler reads it.
Bump(n) == IF n < Many THEN n + 1 ELSE Many

Zero == [r \in Conn |-> [x \in Conn |-> 0]]

\* The sockets an emission reaches with event ev.
Recipients(emit, ev) == {m.to : m \in {e \in emit : e.ev = ev}}

\* x has joined: a new membership epoch of x starts.
ResetFor(cnt, x) == [r \in Conn |-> [cnt[r] EXCEPT ![x] = 0]]

\* r has left or closed: it no longer waits for anybody's departure.
ResetRow(cnt, r) == [cnt EXCEPT ![r] = [x \in Conn |-> 0]]

\* x departs from the rooms in keys: every other socket still in one of them
\* is owed one user-left naming x.
OweFor(cnt, x, keys) ==
  [r \in Conn |->
     IF r # x /\ sockets[r] = "open" /\ memberOf[r] \cap keys # {}
       THEN [cnt[r] EXCEPT ![x] = Bump(@)]
       ELSE cnt[r]]

\* the user-left events naming x that emit carries are counted
SeenFor(cnt, x, emit) ==
  [r \in Conn |->
     IF r \in Recipients(emit, "user-left")
       THEN [cnt[r] EXCEPT ![x] = Bump(@)]
       ELSE cnt[r]]

\* s has joined: its snapshot is recorded, and so is the user-joined naming
\* s for every socket that emit reaches with one.
JoinSeen(h, s, emit) ==
  [r \in Conn |->
     IF r = s
       THEN [h[r] EXCEPT
               !.n = Bump(@),
               !.snap = UNION {{q.socketId : q \in m.users} :
                                 m \in {e \in emit : e.ev = "room-users"}}]
       ELSE IF r \in Recipients(emit, "user-joined")
         THEN [h[r] EXCEPT !.heard[s] = Bump(@)]
         ELSE h[r]]

\* One run of a client handler: who handled which event about whom, and the
\* negotiations it closed.
Handling(c, ev, from, closed) ==
  [client |-> c, ev |-> ev, from |-> from, closed |-> closed]

\* ------------------------------------------------------------------- Init
Init ==
  /\ sockets = [s \in Conn |-> "idle"]
  /\ ioRooms = [r \in RoomNames |-> {}]
  /\ rooms = EmptyMap
  /\ participants = EmptyMap
  /\ lastReq = Req("none", None, None, None, None, None)
  /\ lastEmit = {}
  /\ memberOf = [s \in Conn |-> {}]
  /\ fresh = {}
  /\ owed = Zero
  /\ leftSeen = Zero
  /\ nreq = 0
  /\ joinHist = [s \in Conn |->
                   [n |-> 0, snap |-> {}, heard |-> [x \in Conn |-> 0]]]
  /\ cState = [c \in Conn |-> "init"]
  /\ cUser = [c \in Conn |-> None]
  /\ cKey = [c \in Conn |-> None]
  /\ inbox = [c \in Conn |-> <<>>]
  /\ cParticipants = [c \in Conn |-> {}]
  /\ peerConnections = [c \in Conn |-> EmptyMap]
  /\ timers = [c \in Conn |-> {}]
  /\ tasks = [c \in Conn |-> {}]
  /\ lastHandled = Handling(None, None, None, {})
  /\ gotLeft = Zero
  /\ dropped = {}
  /\ outbox = [c \in Conn |-> <<>>]
  /\ nsent = [c \in Conn |-> 0]
  /\ candidates = [c \in Conn |-> [x \in Conn |-> 0]]
  /\ cRecording = [c \in Conn |-> FALSE]
  /\ cMedia = [c \in Conn |-> "none"]
  /\ cStatus = [c \in Conn |-> "connecting"]
  /\ cEntry = [c \in Conn |-> None]
  /\ cSteps = [c \in Conn |-> {}]
  /\ cSharing = [c \in Conn |-> FALSE]
  /\ cFailed = Zero
  /\ cRestarts = Zero
  /\ iceWaiting = [c \in Conn |-> {}]
  /\ cApplied = [c \in Conn |-> [x \in Conn |-> <<>>]]
  /\ cTracks = [c \in Conn |-> [x \in Conn |-> "none"]]
  /\ cClosure = [c \in Conn |-> "none"]
  /\ cCaptures = [c \in Conn |-> 0]
  /\ iceTurn = [c \in Conn |-> 0]
  /\ cPending = [c \in Conn |-> {}]
  /\ cVia = [c \in Conn |-> {}]

Handled == nreq' = nreq + 1

\* ----------------------------------------------------------- relay actions
\* io.on('connection'): the socket gets its id and sits in its own room.
Connect(s) ==
  /\ sockets[s] = "idle"
  /\ sockets' = [sockets EXCEPT ![s] = "open"]
  /\ ioRooms' = IoJoin(ioRooms, s, s)
  /\ lastReq' = Req("connection", s, None, None, None, None)
  /\ lastEmit' = {}
  /\ UNCHANGED <<rooms, participants, historyVars>>

\* socket.on('join-room')
JoinRoom(s, key, userInfo) ==
  /\ sockets[s] = "open"
  /\ ioRooms' = IoJoin(ioRooms, s, key)
  /\ participants' = MapSet(participants, s, Participant(s, key, userInfo))
  /\ rooms' = AddToRoom(rooms, key, s)
  /\ lastEmit' =
       {Msg(s, "room-users", None, None,
            RoomParticipants(rooms', participants', key), None)}
       \cup {Msg(r, "user-joined", s, participants'[s].userId,
                 {participants'[s]}, None) :
               r \in SocketTo(ioRooms', s, key)}
  /\ lastReq' = Req("join-room", s, key, None, userInfo.userId,
                   <<userInfo.audioEnabled, userInfo.videoEnabled>>)
  /\ memberOf' = [memberOf EXCEPT ![s] = @ \cup {key}]
  /\ fresh' = fresh \cup {s}
  /\ owed' = ResetFor(owed, s)
  /\ leftSeen' = ResetFor(leftSeen, s)
  /\ joinHist' = JoinSeen(joinHist, s, lastEmit')
  /\ Handled
  /\ UNCHANGED sockets

\* socket.on('leave-room')
LeaveRoom(s, key) ==
  /\ sockets[s] = "open"
  /\ ioRooms' = IoLeave(ioRooms, s, key)
  /\ rooms' = RemoveFromRoom(rooms, key, s)
  /\ lastEmit' = {Msg(r, "user-left", s, None, {}, None) :
                    r \in SocketTo(ioRooms', s, key)}
  /\ participants' = MapDelete(participants, s)
  /\ lastReq' = Req("leave-room", s, key, None, None, None)
  /\ memberOf' = [memberOf EXCEPT ![s] = @ \ {key}]
  /\ fresh' = fresh \ {s}
  /\ owed' = ResetRow(OweFor(owed, s, memberOf[s] \cap {key}), s)
  /\ leftSeen' = ResetRow(SeenFor(leftSeen, s, lastEmit'), s)
  /\ Handled
  /\ UNCHANGED <<sockets, joinHist>>

\* A relay that takes the sender id from the payload instead of the socket.
DirectedTrustingPayload(type, s, to, body) ==
  /\ sockets[s] = "open"
  /\ lastEmit' =
       {Msg(r, type, body,
            IF type = "webrtc-offer" /\ s \in DOMAIN participants
              THEN participants[s].userId ELSE None,
            {}, body) :
          r \in SocketTo(ioRooms, s, to)}
  /\ lastReq' = Req(type, s, None, to, None, body)
  /\ Handled
  /\ UNCHANGED <<sockets, ioRooms, rooms, participants,
                 memberOf, fresh, owed, leftSeen, joinHist>>

\* socket.on('webrtc-offer' | 'webrtc-answer' | 'webrtc-ice-candidate'):
\* body is what the client put in the payload, relayed verbatim.
Directed(type, s, to, body) ==
  /\ sockets[s] = "open"
  /\ lastEmit' =
       {Msg(r, type, s,
            IF type = "webrtc-offer" /\ s \in DOMAIN participants
              THEN participants[s].userId ELSE None,
            {}, body) :
          r \in SocketTo(ioRooms, s, to)}
  /\ lastReq' = Req(type, s, None, to, None, body)
  /\ Handled
  /\ UNCHANGED <<sockets, ioRooms, rooms, participants,
                 memberOf, fresh, owed, leftSeen, joinHist>>

\* socket.on('chat-message' | 'start-recording' | 'stop-recording'):
\* io.to(meetingKey), the sender included.
RoomEventAll(type, s, key) ==
  /\ sockets[s] = "open"
  /\ lastEmit' =
       IF s \in DOMAIN participants
         THEN {Msg(r, RoomEventOf(type), None, participants[s].user, {}, None) :
                 r \in IoTo(ioRooms, key)}
         ELSE {}
  /\ lastReq' = Req(type, s, key, None, None, None)
  /\ Handled
  /\ UNCHANGED <<sockets, ioRooms, rooms, participants,
                 memberOf, fresh, owed, leftSeen, joinHist>>

\* socket.on('start-screen-share' | 'stop-screen-share'):
\* socket.to(meetingKey), and the participant's flag is stored.
ScreenShare(type, s, key) ==
  /\ sockets[s] = "open"
  /\ participants' =
       IF s \in DOMAIN participants
         THEN [participants EXCEPT
                 ![s].isScreenSharing = (type = "start-screen-share")]
         ELSE participants
  /\ lastEmit' =
       IF s \in DOMAIN participants
         THEN {Msg(r, RoomEventOf(type), s, participants[s].userId, {}, None) :
                 r \in SocketTo(ioRooms, s, key)}
         ELSE {}
  /\ lastReq' = Req(type, s, key, None, None, None)
  /\ Handled
  /\ UNCHANGED <<sockets, ioRooms, rooms, memberOf, fresh, owed, leftSeen,
                 joinHist>>

\* socket.on('disconnect')
Disconnect(s) ==
  /\ sockets[s] = "open"
  /\ sockets' = [sockets EXCEPT ![s] = "closed"]
  /\ ioRooms' = IoLeaveAll(ioRooms, s)
  /\ rooms' =
       IF s \in DOMAIN participants
         THEN RemoveFromRoom(rooms, participants[s].meetingKey, s)
         ELSE rooms
  /\ lastEmit' =
       IF s \in DOMAIN participants
         THEN {Msg(r, "user-left", s, None, {}, None) :
                 r \in SocketTo(ioRooms', s, participants[s].meetingKey)}
         ELSE {}
  /\ participants' = MapDelete(participants, s)
  /\ lastReq' = Req("disconnect", s, None, None, None, None)
  /\ memberOf' = [memberOf EXCEPT ![s] = {}]
  /\ fresh' = fresh \ {s}
  /\ owed' = ResetRow(OweFor(owed, s, memberOf[s]), s)
  /\ leftSeen' = ResetRow(SeenFor(leftSeen, s, lastEmit'), s)
  /\ Handled
  /\ UNCHANGED joinHist

\* ---------------------------------------------------------- specifications
\* The relay under every request a connected client can send.
Next ==
  \/ /\ \E s \in Conn : Connect(s)
     /\ UNCHANGED clientVars
  \/ /\ nreq < MaxReq
     /\ \E s \in Conn, key \in MeetingKeys, userInfo \in StockInfos :
          JoinRoom(s, key, userInfo)
     /\ UNCHANGED clientVars
  \/ /\ nreq < MaxReq
     /\ \E s \in Conn, key \in MeetingKeys : LeaveRoom(s, key)
     /\ UNCHANGED clientVars
  \/ /\ nreq < MaxReq
     /\ \E type \in DirectedTypes, s \in Conn, to \in RoomNames,
           body \in Bodies : Directed(type, s, to, body)
     /\ UNCHANGED clientVars
  \/ /\ nreq < MaxReq
     /\ \E type \in {"chat-message", "start-recording", "stop-recording"},
           s \in Conn, key \in MeetingKeys : RoomEventAll(type, s, key)
     /\ UNCHANGED clientVars
  \/ /\ nreq < MaxReq
     /\ \E type \in {"start-screen-share", "stop-screen-share"},
           s \in Conn, key \in MeetingKeys : ScreenShare(type, s, key)
     /\ UNCHANGED clientVars
  \/ /\ nreq < MaxReq
     /\ \E s \in Conn : Disconnect(s)
     /\ UNCHANGED clientVars

Spec == Init /\ [][Next]_vars

\* The relay under join-room, leave-room and disconnect requests only.
MemberNext ==
  \/ /\ \E s \in Conn : Connect(s)
     /\ UNCHANGED clientVars
  \/ /\ nreq < MaxMemberReq
     /\ \E s \in Conn, key \in MeetingKeys, userInfo \in StockInfos :
          JoinRoom(s, key, userInfo)
     /\ UNCHANGED clientVars
  \/ /\ nreq < MaxMemberReq
     /\ \E s \in Conn, key \in MeetingKeys : LeaveRoom(s, key)
     /\ UNCHANGED clientVars
  \/ /\ nreq < MaxMemberReq
     /\ \E s \in Conn : Disconnect(s)
     /\ UNCHANGED clientVars

MemberSpec == Init /\ [][MemberNext]_vars

\* The relay under join-room requests with any flags.
FlagNext ==
  \/ /\ \E s \in Conn : Connect(s)
     /\ UNCHANGED clientVars
  \/ /\ nreq < MaxFlagReq
     /\ \E s \in Conn, key \in GeneratedKeys, userInfo \in UserInfos :
          JoinRoom(s, key, userInfo)
     /\ UNCHANGED clientVars
  \/ /\ nreq < MaxFlagReq
     /\ \E s \in Conn : Disconnect(s)
     /\ UNCHANGED clientVars

FlagSpec == Init /\ [][FlagNext]_vars

\* ------------------------------------------------------------ the clients
\* One MeetingRoom instance per socket (MeetingRoom.tsx, services/socket.ts).
\* An emit is handled by the relay in the step that makes it: the relay
\* handles the requests of one socket in the order they were emitted.

\* The event each listening client is sent by the latest relay step is
\* appended to its socket's queue; a socket without listeners keeps nothing.
DeliverTo(ib, emit, st) ==
  [r \in Conn |->
     IF st[r] # "joined" THEN <<>>
     ELSE IF \E m \in emit : m.to = r
       THEN Append(ib[r], CHOOSE m \in emit : m.to = r)
       ELSE ib[r]]

RelayQuiet == UNCHANGED <<relayVars, historyVars>>

\* The userInfo initializeMeeting sends: the logged-in user, both flags on.
HonestUserInfo(user) ==
  [userId |-> user, user |-> user, audioEnabled |-> TRUE, videoEnabled |-> TRUE]

\* new RTCPeerConnection(): nothing negotiated yet
NewPc == "new"

\* initializeMeeting, from socketService.connect() on: listeners, join-room.
Joins(c, key, user) ==
  /\ cState[c] = "init"
  /\ JoinRoom(c, key, HonestUserInfo(user))
  /\ cState' = [cState EXCEPT ![c] = "joined"]
  /\ cUser' = [cUser EXCEPT ![c] = user]
  /\ cKey' = [cKey EXCEPT ![c] = key]
  /\ inbox' = DeliverTo(inbox, lastEmit', cState')
  /\ UNCHANGED <<cParticipants, peerConnections, timers, tasks,
                 lastHandled, gotLeft, dropped>>
  /\ UNCHANGED <<outbox, nsent, candidates, cRecording>>

\* A client whose lookup and media acquisition went well joins.
ClientJoin(c, key, user) ==
  /\ Joins(c, key, user)
  /\ UNCHANGED sessionVars

\* The head of the socket's queue is dispatched to its listener.
Head1(c) == Head(inbox[c])

Takes(c, ev) ==
  /\ cState[c] = "joined"
  /\ inbox[c] # <<>>
  /\ Head1(c).ev = ev
  /\ inbox' = [inbox EXCEPT ![c] = Tail(@)]

\* A client that offers to whoever it hears of, and one that never offers.
AlwaysInitiator == TRUE

NeverInitiator == FALSE

\* createPeerConnection(participant.socketId, true) for a snapshot entry
InitiatorFromSnapshot == TRUE

\* createPeerConnection(participant.socketId, false) for a user-joined
InitiatorFromJoined == FALSE

\* socket.on('room-users')
OnRoomUsers(c) ==
  /\ Takes(c, "room-users")
  /\ LET others == {q \in Head1(c).users : q.userId # cUser[c]}
     IN /\ cParticipants' =
             [cParticipants EXCEPT ![c] = {q.socketId : q \in others}]
        /\ timers' = [timers EXCEPT ![c] =
             @ \cup {[peer |-> q.socketId, init |-> InitiatorFromSnapshot] :
                       q \in others}]
  /\ UNCHANGED lastHandled
  /\ RelayQuiet
  /\ UNCHANGED <<cState, cUser, cKey, peerConnections, tasks, gotLeft, dropped>>
  /\ UNCHANGED <<outbox, nsent, candidates, cRecording>>
  /\ UNCHANGED sessionVars

\* socket.on('user-joined')
OnUserJoined(c) ==
  /\ Takes(c, "user-joined")
  /\ IF Head1(c).userId # cUser[c]
       THEN /\ cParticipants' =
                 [cParticipants EXCEPT ![c] = @ \cup {Head1(c).from}]
            /\ timers' = [timers EXCEPT ![c] =
                 @ \cup {[peer |-> Head1(c).from, init |-> InitiatorFromJoined]}]
       ELSE UNCHANGED <<cParticipants, timers>>
  /\ UNCHANGED lastHandled
  /\ RelayQuiet
  /\ UNCHANGED <<cState, cUser, cKey, peerConnections, tasks, gotLeft, dropped>>
  /\ UNCHANGED <<outbox, nsent, candidates, cRecording>>
  /\ UNCHANGED sessionVars

\* pc.close() ends the continuations that wait on a promise of that pc.
WithoutTasksOf(ts, peer) ==
  {k \in ts : k.peer # peer \/ k.kind \notin {"offer", "answer"}}

\* A user-left handler that keeps the participant.
ForgetNothing(ps, x) == ps

\* newMap.delete(socketId)
Forget(ps, x) == ps \ {x}

\* socket.on('user-left')
OnUserLeft(c) ==
  /\ Takes(c, "user-left")
  /\ LET x == Head1(c).from
     IN /\ cParticipants' = [cParticipants EXCEPT ![c] = Forget(@, x)]
        /\ peerConnections' =
             [peerConnections EXCEPT ![c] = MapDelete(@, x)]
        /\ tasks' = [tasks EXCEPT ![c] = WithoutTasksOf(@, x)]
        /\ lastHandled' =
             Handling(c, "user-left", x, {x} \cap DOMAIN peerConnections[c])
        /\ gotLeft' = [gotLeft EXCEPT ![c][x] = Bump(@)]
  /\ RelayQuiet
  /\ UNCHANGED <<cState, cUser, cKey, timers, dropped>>
  /\ UNCHANGED <<outbox, nsent, candidates, cRecording>>
  /\ UNCHANGED sessionVars

\* A createPeerConnection without its "already exists" test.
EnsurePcAnew(pcs, peer) == MapSet(pcs, peer, NewPc)

\* createPeerConnection up to its first await: the existing entry is kept,
\* otherwise a new transport is stored under the socket id.
EnsurePc(pcs, peer) ==
  IF peer \in DOMAIN pcs THEN pcs ELSE MapSet(pcs, peer, NewPc)

\* if (localStream) localStream.getTracks().forEach(pc.addTrack): the video
\* track a transport made by createPeerConnection starts with.  localStream
\* is the one of the closure that set up the listeners and the timers.
ClosureTrack(c) == IF cClosure[c] = "none" THEN "none" ELSE "camera"

\* The senders after createPeerConnection(peer): those of a transport that
\* exists stay, a new transport gets the tracks of the closure's stream.
AddTracks(c, peer) ==
  IF peer \in DOMAIN peerConnections[c] THEN cTracks[c]
  ELSE [cTracks[c] EXCEPT ![peer] = ClosureTrack(c)]

\* A setTimeout(() => createPeerConnection(peer, init), 500) fires.  The
\* timers of an instance that ran cleanup are not cleared and still fire.
TimerFires(c, t) ==
  /\ c \notin dropped
  /\ t \in timers[c]
  /\ timers' = [timers EXCEPT ![c] = @ \ {t}]
  /\ peerConnections' = [peerConnections EXCEPT ![c] = EnsurePc(@, t.peer)]
  /\ tasks' = [tasks EXCEPT ![c] =
       IF t.init /\ t.peer \notin DOMAIN peerConnections[c]
         THEN @ \cup {[kind |-> "offer", peer |-> t.peer]}
         ELSE @]
  /\ cTracks' = [cTracks EXCEPT ![c] = AddTracks(c, t.peer)]
  /\ UNCHANGED lastHandled
  /\ RelayQuiet
  /\ UNCHANGED <<cState, cUser, cKey, inbox, cParticipants, gotLeft, dropped>>
  /\ UNCHANGED <<outbox, nsent, candidates, cRecording>>
  /\ UNCHANGED <<coreSession, cClosure, cCaptures, lateVars>>

\* socket.on('webrtc-offer') -> handleOffer up to its first await
OnOffer(c) ==
  /\ Takes(c, "webrtc-offer")
  /\ LET x == Head1(c).from
     IN /\ peerConnections' = [peerConnections EXCEPT ![c] = EnsurePc(@, x)]
        /\ tasks' = [tasks EXCEPT ![c] =
             @ \cup {[kind |-> "answer", peer |-> x]}]
        /\ cTracks' = [cTracks EXCEPT ![c] = AddTracks(c, x)]
        /\ UNCHANGED lastHandled
  /\ RelayQuiet
  /\ UNCHANGED <<cState, cUser, cKey, cParticipants, timers, gotLeft, dropped>>
  /\ UNCHANGED <<outbox, nsent, candidates, cRecording>>
  /\ UNCHANGED <<coreSession, cClosure, cCaptures, lateVars>>

\* socket.on('webrtc-answer') -> handleAnswer
OnAnswer(c) ==
  /\ Takes(c, "webrtc-answer")
  /\ LET x == Head1(c).from
     IN /\ peerConnections' =
             [peerConnections EXCEPT ![c] =
                IF x \in DOMAIN @ /\ @[x] = "have-local-offer"
                  THEN MapSet(@, x, "stable") ELSE @]
        /\ UNCHANGED lastHandled
  /\ RelayQuiet
  /\ UNCHANGED <<cState, cUser, cKey, cParticipants, timers, tasks,
                 gotLeft, dropped>>
  /\ UNCHANGED <<outbox, nsent, candidates, cRecording>>
  /\ UNCHANGED sessionVars

\* socketService.sendOffer / sendAnswer: this.socket?.emit, handled by the
\* relay; after socketService.disconnect() the socket is null, nothing is sent.
Emits(c, type, to) ==
  IF cState[c] = "joined"
    THEN /\ Directed(type, c, to, c)
         /\ inbox' = DeliverTo(inbox, lastEmit', cState)
    ELSE /\ RelayQuiet
         /\ UNCHANGED inbox

\* createPeerConnection after setLocalDescription(offer) resolves
OfferReady(c, x) ==
  /\ c \notin dropped
  /\ [kind |-> "offer", peer |-> x] \in tasks[c]
  /\ tasks' = [tasks EXCEPT ![c] = @ \ {[kind |-> "offer", peer |-> x]}]
  /\ peerConnections' =
       [peerConnections EXCEPT ![c] = MapSet(@, x, "have-local-offer")]
  /\ Emits(c, "webrtc-offer", x)
  /\ UNCHANGED lastHandled
  /\ UNCHANGED <<cState, cUser, cKey, cParticipants, timers, gotLeft, dropped>>
  /\ UNCHANGED <<outbox, nsent, candidates, cRecording>>
  /\ UNCHANGED sessionVars

\* handleOffer after setRemoteDescription, createAnswer and
\* setLocalDescription(answer) resolve
AnswerReady(c, x) ==
  /\ c \notin dropped
  /\ [kind |-> "answer", peer |-> x] \in tasks[c]
  /\ tasks' = [tasks EXCEPT ![c] = @ \ {[kind |-> "answer", peer |-> x]}]
  /\ peerConnections' =
       [peerConnections EXCEPT ![c] = MapSet(@, x, "stable")]
  /\ Emits(c, "webrtc-answer", x)
  /\ UNCHANGED lastHandled
  /\ UNCHANGED <<cState, cUser, cKey, cParticipants, timers, gotLeft, dropped>>
  /\ UNCHANGED <<outbox, nsent, candidates, cRecording>>
  /\ UNCHANGED sessionVars

\* The four steps of cleanup(), in the order of the code.
CleanupOrder == <<"tracks", "transports", "leave", "disconnect">>

CleanupSteps == {CleanupOrder[i] : i \in 1..Len(CleanupOrder)}

\* cleanup has no try/catch: a step that throws ends the function, the
\* steps before it have run and those after it have not.
StepsBefore(at) ==
  IF at = None THEN CleanupSteps
  ELSE LET k == CHOOSE i \in 1..Len(CleanupOrder) : CleanupOrder[i] = at
       IN {CleanupOrder[i] : i \in 1..(k - 1)}

\* cleanup is called by leaveMeeting (the Leave button), in the closure of
\* the current render, and by the unmount effect, in the closure of the
\* render that ran the effect, where localStream is still null.
Vias == {"button", "unmount"}

SeesStream(c, via) == via = "button" /\ cMedia[c] = "live"

\* The step at which cleanup may throw: track.stop() and pc.close() run only
\* if there is a stream in sight, a transport in the map.
MayThrow(c, via, at) ==
  \/ at = None
  \/ at = "tracks" /\ SeesStream(c, via)
  \/ at = "transports" /\ DOMAIN peerConnections[c] # {}
  \/ at \in {"leave", "disconnect"}

\* cleanup(), called through via, throwing at step at (None: nowhere).  The
\* tracks are stopped, every transport is closed and forgotten, leave-room
\* is emitted and socketService.disconnect() drops the socket, as far as the
\* function gets.  leaveMeeting navigates away only if cleanup returned.
CleanupRun(c, via, at) ==
  /\ cState[c] = "joined"
  /\ MayThrow(c, via, at)
  /\ LET done == StepsBefore(at)
         stays == via = "button" /\ at # None
         st == IF stays THEN cState ELSE [cState EXCEPT ![c] = "gone"]
     IN /\ cSteps' = [cSteps EXCEPT ![c] = {"begun"} \cup done]
        /\ cMedia' = [cMedia EXCEPT ![c] =
             IF "tracks" \in done /\ SeesStream(c, via) THEN "stopped" ELSE @]
        /\ IF "transports" \in done
             THEN /\ peerConnections' =
                       [peerConnections EXCEPT ![c] = EmptyMap]
                  /\ tasks' = [tasks EXCEPT ![c] = {}]
             ELSE UNCHANGED <<peerConnections, tasks>>
        /\ cState' = st
        /\ cStatus' = [cStatus EXCEPT ![c] = IF stays THEN @ ELSE "dashboard"]
        /\ IF "leave" \in done /\ sockets[c] = "open"
             THEN /\ LeaveRoom(c, cKey[c])
                  /\ inbox' = DeliverTo(inbox, lastEmit', st)
             ELSE /\ RelayQuiet
                  /\ inbox' = [inbox EXCEPT ![c] = IF stays THEN @ ELSE <<>>]
  /\ UNCHANGED lastHandled
  /\ UNCHANGED <<cUser, cKey, cParticipants, timers, gotLeft, dropped>>
  /\ UNCHANGED <<outbox, nsent, candidates, cRecording>>
  /\ cVia' = [cVia EXCEPT ![c] = @ \cup {via}]
  /\ UNCHANGED <<cEntry, cSharing, cFailed, cRestarts, iceWaiting, cApplied>>
  /\ UNCHANGED <<shareVars, iceTurn, cPending>>

\* cleanup() from the Leave button, nothing throwing.
Cleanup(c) == CleanupRun(c, "button", None)

\* The relay sees the close of a socket that the client disconnected.
SocketCloses(c) ==
  /\ cState[c] = "gone"
  /\ "disconnect" \in cSteps[c]
  /\ Disconnect(c)
  /\ inbox' = DeliverTo(inbox, lastEmit', cState)
  /\ UNCHANGED <<cState, cUser, cKey, cParticipants, peerConnections,
                 timers, tasks, lastHandled, gotLeft, dropped>>
  /\ UNCHANGED <<outbox, nsent, candidates, cRecording>>
  /\ UNCHANGED sessionVars

\* The transport drops (tab closed, network lost): no cleanup runs and the
\* instance is gone with all it held.
Drops(c) ==
  /\ cState[c] \in {"init", "joined"}
  /\ Disconnect(c)
  /\ cState' = [cState EXCEPT ![c] = "gone"]
  /\ dropped' = dropped \cup {c}
  /\ inbox' = DeliverTo(inbox, lastEmit', cState')
  /\ cParticipants' = [cParticipants EXCEPT ![c] = {}]
  /\ peerConnections' = [peerConnections EXCEPT ![c] = EmptyMap]
  /\ timers' = [timers EXCEPT ![c] = {}]
  /\ tasks' = [tasks EXCEPT ![c] = {}]
  /\ UNCHANGED <<cUser, cKey, lastHandled, gotLeft>>
  /\ UNCHANGED <<outbox, nsent, candidates, cRecording>>
  /\ UNCHANGED sessionVars

\* The relay and the MeetingRoom clients of one meeting.
MeshNext ==
  \/ /\ \E c \in Conn : Connect(c)
     /\ UNCHANGED clientVars
  \/ /\ nreq < MaxMeshReq
     /\ \E c \in Conn, key \in MeshKeys, user \in UserIds :
          ClientJoin(c, key, user)
  \/ \E c \in Conn : OnRoomUsers(c)
  \/ \E c \in Conn : OnUserJoined(c)
  \/ \E c \in Conn : OnUserLeft(c)
  \/ \E c \in Conn : OnOffer(c)
  \/ \E c \in Conn : OnAnswer(c)
  \/ \E c \in Conn : \E t \in timers[c] : TimerFires(c, t)
  \/ /\ nreq < MaxMeshReq
     /\ \E c \in Conn, x \in Conn : OfferReady(c, x)
  \/ /\ nreq < MaxMeshReq
     /\ \E c \in Conn, x \in Conn : AnswerReady(c, x)
  \/ /\ nreq < MaxMeshReq
     /\ \E c \in Conn : Cleanup(c)
  \/ /\ nreq < MaxMeshReq
     /\ \E c \in Conn : SocketCloses(c)
  \/ /\ nreq < MaxMeshReq
     /\ \E c \in Conn : Drops(c)

MeshSpec == Init /\ [][MeshNext]_vars

\* ------------------------------------------- three clients, nobody leaves
\* A, B, C are c1, c2, c3, logged in as three different users.
TrioUser(c) == IF c = "c1" THEN "u1" ELSE IF c = "c2" THEN "u2" ELSE "u3"

\* They join in that order.
JoinsBefore(c) ==
  IF c = "c1" THEN {} ELSE IF c = "c2" THEN {"c1"} ELSE {"c1", "c2"}

TrioJoin(c) ==
  /\ \A b \in JoinsBefore(c) : cState[b] = "joined"
  /\ \E key \in MeshKeys : ClientJoin(c, key, TrioUser(c))

RECURSIVE SumOver(_, _)
SumOver(f, S) ==
  IF S = {} THEN 0
  ELSE LET e == CHOOSE e \in S : TRUE IN f[e] + SumOver(f, S \ {e})

TotalCandidates ==
  SumOver([c \in Conn |-> SumOver(candidates[c], Conn)], Conn)

\* pc.onicecandidate: a transport with a local description gathers a
\* candidate and sends it to the peer it was created for.
CandidateReady(c, x) ==
  /\ cState[c] = "joined"
  /\ x \in DOMAIN peerConnections[c]
  /\ peerConnections[c][x] \in {"have-local-offer", "stable"}
  /\ TotalCandidates < MaxCandidates
  /\ candidates' = [candidates EXCEPT ![c][x] = @ + 1]
  /\ Directed("webrtc-ice-candidate", c, x, c)
  /\ inbox' = DeliverTo(inbox, lastEmit', cState)
  /\ UNCHANGED <<cState, cUser, cKey, cParticipants, peerConnections,
                 timers, tasks, lastHandled, gotLeft, dropped, outbox, nsent>>
  /\ UNCHANGED cRecording
  /\ UNCHANGED sessionVars

\* pc && pc.remoteDescription: certainly once the exchange is complete,
\* possibly while handleOffer is between its awaits, otherwise not.
RemoteSure(c, x) ==
  x \in DOMAIN peerConnections[c] /\ peerConnections[c][x] = "stable"

RemoteMaybe(c, x) ==
  /\ x \in DOMAIN peerConnections[c]
  /\ peerConnections[c][x] = NewPc
  /\ [kind |-> "answer", peer |-> x] \in tasks[c]

\* socket.on('webrtc-ice-candidate') -> handleIceCandidate: the candidate is
\* added, or kept for another try 1000 ms later.
OnIceCandidate(c) ==
  /\ Takes(c, "webrtc-ice-candidate")
  /\ LET x == Head1(c).from
     IN \/ /\ RemoteSure(c, x) \/ RemoteMaybe(c, x)
           /\ UNCHANGED tasks
        \/ /\ ~RemoteSure(c, x)
           /\ tasks' = [tasks EXCEPT ![c] = @ \cup {[kind |-> "ice", peer |-> x]}]
  /\ RelayQuiet
  /\ UNCHANGED <<cState, cUser, cKey, cParticipants, peerConnections, timers,
                 lastHandled, gotLeft, dropped, outbox, nsent, candidates>>
  /\ UNCHANGED cRecording
  /\ UNCHANGED sessionVars

\* The retry of handleIceCandidate that finds the remote description set; a
\* retry that does not leaves the candidate waiting as before.
IceRetryAdds(c, x) ==
  /\ c \notin dropped
  /\ [kind |-> "ice", peer |-> x] \in tasks[c]
  /\ RemoteSure(c, x) \/ RemoteMaybe(c, x)
  /\ tasks' = [tasks EXCEPT ![c] = @ \ {[kind |-> "ice", peer |-> x]}]
  /\ RelayQuiet
  /\ UNCHANGED <<cState, cUser, cKey, inbox, cParticipants, peerConnections,
                 timers, lastHandled, gotLeft, dropped, outbox, nsent,
                 candidates>>
  /\ UNCHANGED cRecording
  /\ UNCHANGED sessionVars

TrioNext ==
  \/ /\ \E c \in Conn : Connect(c)
     /\ UNCHANGED clientVars
  \/ \E c \in Conn : TrioJoin(c)
  \/ \E c \in Conn : OnRoomUsers(c)
  \/ \E c \in Conn : OnUserJoined(c)
  \/ \E c \in Conn : OnOffer(c)
  \/ \E c \in Conn : OnAnswer(c)
  \/ \E c \in Conn : \E t \in timers[c] : TimerFires(c, t)
  \/ \E c \in Conn, x \in Conn : OfferReady(c, x)
  \/ \E c \in Conn, x \in Conn : AnswerReady(c, x)
  \/ \E c \in Conn, x \in Conn : CandidateReady(c, x)
  \/ \E c \in Conn : OnIceCandidate(c)
  \/ \E c \in Conn, x \in Conn : IceRetryAdds(c, x)

\* Messages are delivered, timers fire and promises settle.
TrioSpec == Init /\ [][TrioNext]_vars /\ WF_vars(TrioNext)

\* --------------------------------------------------- the recording toggle
\* The Record button: startRecording when the indicator is off, stopRecording
\* when it is on; the indicator is set at once and the relay is told.
ToggleRecording(c) ==
  /\ cState[c] = "joined"
  /\ cRecording' = [cRecording EXCEPT ![c] = ~@]
  /\ RoomEventAll(IF cRecording[c] THEN "stop-recording" ELSE "start-recording",
                  c, cKey[c])
  /\ inbox' = DeliverTo(inbox, lastEmit', cState)
  /\ UNCHANGED <<cState, cUser, cKey, cParticipants, peerConnections, timers,
                 tasks, lastHandled, gotLeft, dropped, outbox, nsent,
                 candidates>>
  /\ UNCHANGED sessionVars

\* socket.on('recording-started')
OnRecordingStarted(c) ==
  /\ Takes(c, "recording-started")
  /\ cRecording' = [cRecording EXCEPT ![c] = TRUE]
  /\ RelayQuiet
  /\ UNCHANGED <<cState, cUser, cKey, cParticipants, peerConnections, timers,
                 tasks, lastHandled, gotLeft, dropped, outbox, nsent,
                 candidates>>
  /\ UNCHANGED sessionVars

\* socket.on('recording-stopped')
OnRecordingStopped(c) ==
  /\ Takes(c, "recording-stopped")
  /\ cRecording' = [cRecording EXCEPT ![c] = FALSE]
  /\ RelayQuiet
  /\ UNCHANGED <<cState, cUser, cKey, cParticipants, peerConnections, timers,
                 tasks, lastHandled, gotLeft, dropped, outbox, nsent,
                 candidates>>
  /\ UNCHANGED sessionVars

\* The relay and the clients of one meeting, membership and recording only.
RoomNext ==
  \/ /\ \E c \in Conn : Connect(c)
     /\ UNCHANGED clientVars
  \/ /\ nreq < MaxRoomReq
     /\ \E c \in Conn, key \in MeshKeys, user \in UserIds :
          ClientJoin(c, key, user)
  \/ \E c \in Conn : OnRoomUsers(c)
  \/ \E c \in Conn : OnUserJoined(c)
  \/ \E c \in Conn : OnUserLeft(c)
  \/ /\ nreq < MaxRoomReq
     /\ \E c \in Conn : ToggleRecording(c)
  \/ \E c \in Conn : OnRecordingStarted(c)
  \/ \E c \in Conn : OnRecordingStopped(c)
  \/ /\ nreq < MaxRoomReq
     /\ \E c \in Conn : Drops(c)

RoomSpec == Init /\ [][RoomNext]_vars

\* ------------------------------------------------ the wire, request by request
\* Socket.IO carries the packets of one socket in order, both ways.  Here an
\* emit and its handling by the relay are two steps: outbox[s] holds what s
\* emitted and the relay has not yet handled, inbox[r] what r was sent.

\* A relay that hands its requests to handlers that finish in any order.
PickNewest(q) == Len(q)

\* The relay's handlers run to completion one request at a time, in the order
\* the packets of the socket arrive: the next request is the oldest one.
Pick(q) == 1

Without(q, i) == [j \in 1..(Len(q) - 1) |-> IF j < i THEN q[j] ELSE q[j + 1]]

\* Every socket the relay step emits to gets the event at its queue's end.
Enqueue(ib, emit) ==
  [r \in Conn |->
     IF \E m \in emit : m.to = r
       THEN Append(ib[r], CHOOSE m \in emit : m.to = r)
       ELSE ib[r]]

TotalSent == nsent["c1"] + nsent["c2"] + nsent["c3"]

\* socketService.sendOffer / sendAnswer / sendIceCandidate: the payload is
\* tagged with the rank of the emit among those of its socket.
Emit(s, type, to) ==
  /\ sockets[s] = "open"
  /\ TotalSent < MaxSent
  /\ nsent' = [nsent EXCEPT ![s] = @ + 1]
  /\ outbox' = [outbox EXCEPT
                  ![s] = Append(@, Req(type, s, None, to, None, nsent'[s]))]
  /\ RelayQuiet
  /\ UNCHANGED <<cState, cUser, cKey, inbox, cParticipants, peerConnections,
                 timers, tasks, lastHandled, gotLeft, dropped, candidates>>
  /\ UNCHANGED cRecording
  /\ UNCHANGED sessionVars

\* The relay takes the next request of s and runs its handler.
RelayHandles(s) ==
  /\ outbox[s] # <<>>
  /\ LET i == Pick(outbox[s])
         q == outbox[s][i]
     IN /\ Directed(q.type, s, q.to, q.body)
        /\ outbox' = [outbox EXCEPT ![s] = Without(@, i)]
  /\ inbox' = Enqueue(inbox, lastEmit')
  /\ UNCHANGED <<cState, cUser, cKey, cParticipants, peerConnections,
                 timers, tasks, lastHandled, gotLeft, dropped, nsent,
                 candidates>>
  /\ UNCHANGED cRecording
  /\ UNCHANGED sessionVars

FifoNext ==
  \/ /\ \E s \in Conn : Connect(s)
     /\ UNCHANGED clientVars
  \/ \E s \in Conn, type \in DirectedTypes :
       \E to \in Conn \ {s} : Emit(s, type, to)
  \/ \E s \in Conn : RelayHandles(s)

FifoSpec == Init /\ [][FifoNext]_vars

\* ------------------------------------------------ one session, end to end
\* What can go wrong in initializeMeeting: api.getMeeting rejects,
\* getUserMedia rejects, or a step after it throws (socketService.connect).
EntryFailures == {None, "lookup", "media", "connect"}

\* An initializeMedia that lets the getUserMedia rejection through.
EveryFailureAborts(failure) == failure # None

\* initializeMedia catches the rejection of getUserMedia itself; the other
\* failures reach the catch of initializeMeeting, which navigates away.
JoinAborts(failure) == failure \in {"lookup", "connect"}

\* The local stream after initializeMedia.
MediaAfter(failure) ==
  IF failure \in {"lookup", "media"} THEN "none" ELSE "live"

\* initializeMeeting: lookup, media, connect, listeners, join-room,
\* setConnectionStatus('connected'); on an abort navigate('/dashboard')
\* unmounts the instance, whose cleanup then runs in the closure of the first
\* render: no stream in sight, no transport, no socket to emit on.
EntersMeeting(c, key, user, failure) ==
  /\ cState[c] = "init"
  /\ cEntry' = [cEntry EXCEPT ![c] = failure]
  /\ cMedia' = [cMedia EXCEPT ![c] = MediaAfter(failure)]
  /\ IF JoinAborts(failure)
       THEN /\ cState' = [cState EXCEPT ![c] = "gone"]
            /\ cStatus' = [cStatus EXCEPT ![c] = "dashboard"]
            /\ cSteps' = [cSteps EXCEPT ![c] = {"begun"} \cup CleanupSteps]
            /\ RelayQuiet
            /\ UNCHANGED <<cUser, cKey, inbox, cParticipants, peerConnections,
                           timers, tasks, lastHandled, gotLeft, dropped>>
            /\ UNCHANGED <<outbox, nsent, candidates, cRecording>>
       ELSE /\ Joins(c, key, user)
            /\ cStatus' = [cStatus EXCEPT ![c] =
                 IF "begun" \in cSteps[c] THEN @ ELSE "connected"]
            /\ UNCHANGED cSteps
  /\ UNCHANGED <<cSharing, cFailed, cRestarts, iceWaiting, cApplied>>
  /\ UNCHANGED shareVars

\* initializeMeeting with nothing happening to the instance during its
\* awaits.
InitializeMeeting(c, key, user, failure) ==
  /\ EntersMeeting(c, key, user, failure)
  /\ UNCHANGED lateVars

\* The connection to the relay is lost while the page stays open.  The relay
\* runs its disconnect handler; on the client the 'disconnect' listener of
\* SocketService logs a line and MeetingRoom listens to nothing of the kind.
ConnectionLost(c) ==
  /\ cState[c] = "joined"
  /\ Disconnect(c)
  /\ inbox' = DeliverTo(inbox, lastEmit', cState)
  /\ UNCHANGED <<cState, cUser, cKey, cParticipants, peerConnections,
                 timers, tasks, lastHandled, gotLeft, dropped>>
  /\ UNCHANGED <<outbox, nsent, candidates, cRecording>>
  /\ UNCHANGED sessionVars

\* The relay and the MeetingRoom clients of one meeting, from the meeting
\* lookup to the end of the session.
\* The two clients whose sessions are followed; both names are connection
\* ids the relay may assign.
SessionClients == {"c1", "c2"}

SessionNext ==
  \/ /\ \E c \in SessionClients : Connect(c)
     /\ UNCHANGED clientVars
  \/ /\ nreq < MaxSessionReq
     /\ \E c \in SessionClients, key \in MeshKeys, failure \in EntryFailures :
          /\ sockets[c] = "open"
          /\ InitializeMeeting(c, key, TrioUser(c), failure)
  \/ \E c \in SessionClients : OnRoomUsers(c)
  \/ \E c \in SessionClients : OnUserJoined(c)
  \/ \E c \in SessionClients : OnUserLeft(c)
  \/ \E c \in SessionClients : OnOffer(c)
  \/ \E c \in SessionClients : OnAnswer(c)
  \/ \E c \in SessionClients : \E t \in timers[c] : TimerFires(c, t)
  \/ /\ nreq < MaxSessionReq
     /\ \E c \in SessionClients, x \in Conn : OfferReady(c, x)
  \/ /\ nreq < MaxSessionReq
     /\ \E c \in SessionClients, x \in Conn : AnswerReady(c, x)
  \/ /\ nreq < MaxSessionReq
     /\ \E c \in SessionClients, via \in Vias, at \in CleanupSteps \cup {None} :
          /\ "begun" \notin cSteps[c]
          /\ CleanupRun(c, via, at)
  \/ /\ nreq < MaxSessionReq
     /\ \E c \in SessionClients : SocketCloses(c)
  \/ /\ nreq < MaxSessionReq
     /\ \E c \in SessionClients : ConnectionLost(c)

SessionSpec == Init /\ [][SessionNext]_vars

\* ------------------------------------- two clients in a room, nobody leaves
\* pc.onicecandidate: the transport has a local description, gathers its next
\* candidate and sends it to the peer; the payload carries the candidate's
\* rank among those c sent to x.
Gathers(c, x) ==
  /\ cState[c] = "joined"
  /\ x \in DOMAIN peerConnections[c]
  /\ peerConnections[c][x] \in {"have-local-offer", "stable"}
  /\ candidates[c][x] < MaxIce
  /\ candidates' = [candidates EXCEPT ![c][x] = @ + 1]
  /\ Directed("webrtc-ice-candidate", c, x, candidates'[c][x])
  /\ inbox' = DeliverTo(inbox, lastEmit', cState)
  /\ UNCHANGED <<cState, cUser, cKey, cParticipants, peerConnections,
                 timers, tasks, lastHandled, gotLeft, dropped, outbox, nsent>>
  /\ UNCHANGED cRecording
  /\ UNCHANGED sessionVars

\* socket.on('webrtc-ice-candidate') -> handleIceCandidate, candidate by
\* candidate: with a remote description the candidate goes to
\* addIceCandidate, without one a setTimeout holds it for 1000 ms.
HandleIceCandidate(c) ==
  /\ Takes(c, "webrtc-ice-candidate")
  /\ LET x == Head1(c).from
         k == Head1(c).body
     IN \/ /\ RemoteSure(c, x) \/ RemoteMaybe(c, x)
           /\ cApplied' = [cApplied EXCEPT ![c][x] = Append(@, k)]
           /\ UNCHANGED iceWaiting
        \/ /\ ~RemoteSure(c, x)
           /\ iceWaiting' = [iceWaiting EXCEPT ![c] =
                @ \cup {[peer |-> x, rank |-> k]}]
           /\ UNCHANGED cApplied
  /\ RelayQuiet
  /\ UNCHANGED <<cState, cUser, cKey, cParticipants, peerConnections, timers,
                 tasks, lastHandled, gotLeft, dropped, outbox, nsent,
                 candidates, cRecording>>
  /\ UNCHANGED <<cMedia, cStatus, cEntry, cSteps, cSharing, cFailed, cRestarts>>
  /\ UNCHANGED <<shareVars, lateVars>>

\* The timeout of a held candidate ends and handleIceCandidate runs again,
\* finding the remote description set (IceRetryWaits is the run that does
\* not find it).
IceRetry(c, w) ==
  /\ c \notin dropped
  /\ w \in iceWaiting[c]
  /\ RemoteSure(c, w.peer) \/ RemoteMaybe(c, w.peer)
  /\ iceWaiting' = [iceWaiting EXCEPT ![c] = @ \ {w}]
  /\ cApplied' = [cApplied EXCEPT ![c][w.peer] = Append(@, w.rank)]
  /\ RelayQuiet
  /\ UNCHANGED <<cState, cUser, cKey, inbox, cParticipants, peerConnections,
                 timers, tasks, lastHandled, gotLeft, dropped, outbox, nsent,
                 candidates, cRecording>>
  /\ UNCHANGED <<cMedia, cStatus, cEntry, cSteps, cSharing, cFailed, cRestarts>>
  /\ UNCHANGED <<shareVars, lateVars>>

\* pc.onconnectionstatechange with connectionState 'failed', for a transport
\* whose exchange is complete: pc.restartIce() is called, nothing else.
TransportFails(c, x) ==
  /\ cState[c] = "joined"
  /\ x \in DOMAIN peerConnections[c]
  /\ peerConnections[c][x] = "stable"
  /\ cFailed[c][x] < Many
  /\ cFailed' = [cFailed EXCEPT ![c][x] = Bump(@)]
  /\ cRestarts' = [cRestarts EXCEPT ![c][x] = Bump(@)]
  /\ RelayQuiet
  /\ UNCHANGED <<cState, cUser, cKey, inbox, cParticipants, peerConnections,
                 timers, tasks, lastHandled, gotLeft, dropped, outbox, nsent,
                 candidates, cRecording>>
  /\ UNCHANGED <<cMedia, cStatus, cEntry, cSteps, cSharing, iceWaiting,
                 cApplied>>
  /\ UNCHANGED <<shareVars, lateVars>>

\* A screen share that makes every transport anew.
TransportsRenewed(pcs) == [x \in DOMAIN pcs |-> NewPc]

\* sender.replaceTrack(videoTrack) on the video sender of every transport:
\* the map and the state of each transport stay as they are.
ReplaceTrack(pcs) == pcs

\* sender.replaceTrack(track) on every transport that has a sender with a
\* video track; a transport without one is passed over.
Replaced(c, track) ==
  [x \in Conn |->
     IF x \in DOMAIN peerConnections[c] /\ cTracks[c][x] # "none"
       THEN track ELSE cTracks[c][x]]

\* toggleScreenShare once the capture prompt is answered: when not sharing,
\* getDisplayMedia, replaceTrack, start-screen-share and videoTrack.onended
\* armed; when sharing, stopScreenShare: getUserMedia, replaceTrack,
\* setLocalStream and stop-screen-share, the screen track being left to
\* run.  A refused capture ends in the catch and changes nothing.
ToggleScreenShare(c, granted) ==
  /\ cState[c] = "joined"
  /\ IF granted
       THEN /\ cSharing' = [cSharing EXCEPT ![c] = ~@]
            /\ cMedia' = [cMedia EXCEPT ![c] = IF cSharing[c] THEN "live" ELSE @]
            /\ peerConnections' =
                 [peerConnections EXCEPT ![c] = ReplaceTrack(@)]
            /\ cTracks' = [cTracks EXCEPT ![c] =
                 Replaced(c, IF cSharing[c] THEN "camera" ELSE "screen")]
            /\ cCaptures' = [cCaptures EXCEPT ![c] =
                 IF cSharing[c] THEN @ ELSE @ + 1]
            /\ ScreenShare(IF cSharing[c] THEN "stop-screen-share"
                                          ELSE "start-screen-share", c, cKey[c])
            /\ inbox' = DeliverTo(inbox, lastEmit', cState)
       ELSE /\ RelayQuiet
            /\ UNCHANGED <<cSharing, cMedia, peerConnections, inbox, cTracks,
                           cCaptures>>
  /\ UNCHANGED <<cState, cUser, cKey, cParticipants, timers, tasks,
                 lastHandled, gotLeft, dropped, outbox, nsent, candidates,
                 cRecording>>
  /\ UNCHANGED <<cStatus, cEntry, cSteps, cFailed, cRestarts, iceWaiting,
                 cApplied, cClosure, lateVars>>

\* videoTrack.onended = () => stopScreenShare(): the screen source ends
\* outside the application (the browser's own "stop sharing", the shared
\* window closed).  stopScreenShare does not look at isScreenSharing.
ScreenSourceEnds(c, granted) ==
  /\ cState[c] = "joined"
  /\ cCaptures[c] > 0
  /\ cCaptures' = [cCaptures EXCEPT ![c] = @ - 1]
  /\ IF granted
       THEN /\ cSharing' = [cSharing EXCEPT ![c] = FALSE]
            /\ cMedia' = [cMedia EXCEPT ![c] = "live"]
            /\ cTracks' = [cTracks EXCEPT ![c] = Replaced(c, "camera")]
            /\ ScreenShare("stop-screen-share", c, cKey[c])
            /\ inbox' = DeliverTo(inbox, lastEmit', cState)
       ELSE /\ RelayQuiet
            /\ UNCHANGED <<cSharing, cMedia, inbox, cTracks>>
  /\ UNCHANGED <<cState, cUser, cKey, cParticipants, peerConnections, timers,
                 tasks, lastHandled, gotLeft, dropped, outbox, nsent,
                 candidates, cRecording>>
  /\ UNCHANGED <<cStatus, cEntry, cSteps, cFailed, cRestarts, iceWaiting,
                 cApplied, cClosure, lateVars>>

\* socket.on('user-started-screen-share' | 'user-stopped-screen-share'): the
\* flag of the participant's entry is set, the keys of the map stay.
OnScreenShare(c) ==
  /\ \E ev \in {"user-started-screen-share", "user-stopped-screen-share"} :
       Takes(c, ev)
  /\ RelayQuiet
  /\ UNCHANGED <<cState, cUser, cKey, cParticipants, peerConnections, timers,
                 tasks, lastHandled, gotLeft, dropped, outbox, nsent,
                 candidates, cRecording>>
  /\ UNCHANGED sessionVars

\* The streams the listeners' closure can hold: null when the effect ran in
\* the first render, the camera stream when it ran again in a later one.
ClosureStreams == {"none", "live"}

\* The two join in order; setupSocketListeners runs in the closure of the
\* render that called initializeMeeting.
PairJoin(c, seen) ==
  /\ \A b \in JoinsBefore(c) : cState[b] = "joined"
  /\ \E key \in MeshKeys : Joins(c, key, TrioUser(c))
  /\ cClosure' = [cClosure EXCEPT ![c] = seen]
  /\ UNCHANGED <<coreSession, cTracks, cCaptures, lateVars>>

PairNext ==
  \/ /\ \E c \in SessionClients : Connect(c)
     /\ UNCHANGED clientVars
  \/ /\ nreq < MaxPairReq
     /\ \E c \in SessionClients, seen \in ClosureStreams : PairJoin(c, seen)
  \/ \E c \in SessionClients : OnRoomUsers(c)
  \/ \E c \in SessionClients : OnUserJoined(c)
  \/ \E c \in SessionClients : OnOffer(c)
  \/ \E c \in SessionClients : OnAnswer(c)
  \/ \E c \in SessionClients : \E t \in timers[c] : TimerFires(c, t)
  \/ /\ nreq < MaxPairReq
     /\ \E c \in SessionClients, x \in SessionClients : OfferReady(c, x)
  \/ /\ nreq < MaxPairReq
     /\ \E c \in SessionClients, x \in SessionClients : AnswerReady(c, x)
  \/ /\ nreq < MaxPairReq
     /\ \E c \in SessionClients, x \in SessionClients : Gathers(c, x)
  \/ \E c \in SessionClients : HandleIceCandidate(c)
  \/ \E c \in SessionClients : \E w \in iceWaiting[c] : IceRetry(c, w)
  \/ \E c \in SessionClients, x \in SessionClients : TransportFails(c, x)
  \/ /\ nreq < MaxPairReq
     /\ \E c \in SessionClients, granted \in BOOLEAN :
          ToggleScreenShare(c, granted)
  \/ \E c \in SessionClients : OnScreenShare(c)
  \/ /\ nreq < MaxPairReq
     /\ \E c \in SessionClients, granted \in BOOLEAN :
          ScreenSourceEnds(c, granted)

PairSpec == Init /\ [][PairNext]_vars

\* ------------------------------------------ cleanup and the awaits around it
\* The effect runs initializeMeeting, which stops at its first await
\* (api.getMeeting, then getUserMedia inside initializeMedia).
MeetingBegins(c, key, user) ==
  /\ cState[c] = "init"
  /\ cPending[c] = {}
  /\ "begun" \notin cSteps[c]
  /\ cPending' = [cPending EXCEPT ![c] = {[key |-> key, user |-> user]}]
  /\ RelayQuiet
  /\ UNCHANGED <<cState, cUser, cKey, inbox, cParticipants, peerConnections,
                 timers, tasks, lastHandled, gotLeft, dropped, outbox, nsent,
                 candidates, cRecording>>
  /\ UNCHANGED <<coreSession, shareVars, iceTurn, cVia>>

\* The page is left while initializeMeeting is at an await: the effect's
\* cleanup runs.  There is no stream, no transport and socketService has no
\* socket yet, so the four steps do nothing; no flag tells the pending
\* initializeMeeting that the instance is gone.
UnmountsWhileAwaiting(c) ==
  /\ cPending[c] # {}
  /\ sockets[c] = "idle"
  /\ "begun" \notin cSteps[c]
  /\ cSteps' = [cSteps EXCEPT ![c] = {"begun"} \cup CleanupSteps]
  /\ cVia' = [cVia EXCEPT ![c] = @ \cup {"unmount"}]
  /\ cStatus' = [cStatus EXCEPT ![c] = "dashboard"]
  /\ RelayQuiet
  /\ UNCHANGED <<cState, cUser, cKey, inbox, cParticipants, peerConnections,
                 timers, tasks, lastHandled, gotLeft, dropped, outbox, nsent,
                 candidates, cRecording>>
  /\ UNCHANGED <<cMedia, cEntry, cSharing, cFailed, cRestarts, iceWaiting,
                 cApplied, shareVars, iceTurn, cPending>>

\* The awaits of initializeMeeting are over and the function goes on where
\* it stopped: socketService.connect(), setupSocketListeners, joinRoom.
ResumesMeeting(c, failure) ==
  /\ \E run \in cPending[c] : EntersMeeting(c, run.key, run.user, failure)
  /\ cPending' = [cPending EXCEPT ![c] = {}]
  /\ UNCHANGED <<iceTurn, cVia>>

\* A socketService.disconnect() that keeps the socket.
SocketKept(c) == sockets[c] = "open"

\* this.socket of the socketService singleton is set: connect() was called
\* and disconnect(), which sets it to null, was not.
HoldsSocket(c) == sockets[c] = "open" /\ "disconnect" \notin cSteps[c]

\* leaveMeeting ran cleanup() and navigate('/dashboard'); the instance
\* unmounts and the effect's cleanup runs cleanup() once more, in the
\* closure of the first render: no stream in sight, the transports that
\* are in the map are closed, leaveRoom and disconnect go to socketService.
UnmountAfterLeave(c) ==
  /\ cState[c] = "gone"
  /\ c \notin dropped
  /\ cVia[c] = {"button"}
  /\ cVia' = [cVia EXCEPT ![c] = @ \cup {"unmount"}]
  /\ peerConnections' = [peerConnections EXCEPT ![c] = EmptyMap]
  /\ tasks' = [tasks EXCEPT ![c] = {}]
  /\ IF HoldsSocket(c)
       THEN /\ LeaveRoom(c, cKey[c])
            /\ inbox' = DeliverTo(inbox, lastEmit', cState)
       ELSE /\ RelayQuiet
            /\ UNCHANGED inbox
  /\ UNCHANGED <<cState, cUser, cKey, cParticipants, timers, lastHandled,
                 gotLeft, dropped, outbox, nsent, candidates, cRecording>>
  /\ UNCHANGED <<coreSession, shareVars, iceTurn, cPending>>

UnmountNext ==
  \/ /\ \E c \in SessionClients : cPending[c] # {} /\ Connect(c)
     /\ UNCHANGED clientVars
  \/ \E c \in SessionClients, key \in MeshKeys :
       MeetingBegins(c, key, TrioUser(c))
  \/ \E c \in SessionClients : UnmountsWhileAwaiting(c)
  \/ /\ nreq < MaxUnmountReq
     /\ \E c \in SessionClients, failure \in EntryFailures :
          /\ sockets[c] = "open"
          /\ ResumesMeeting(c, failure)
  \/ \E c \in SessionClients : OnRoomUsers(c)
  \/ \E c \in SessionClients : OnUserJoined(c)
  \/ \E c \in SessionClients : OnUserLeft(c)
  \/ \E c \in SessionClients : OnOffer(c)
  \/ \E c \in SessionClients : OnAnswer(c)
  \/ \E c \in SessionClients : \E t \in timers[c] : TimerFires(c, t)
  \/ /\ nreq < MaxUnmountReq
     /\ \E c \in SessionClients, x \in Conn : OfferReady(c, x)
  \/ /\ nreq < MaxUnmountReq
     /\ \E c \in SessionClients, x \in Conn : AnswerReady(c, x)
  \/ /\ nreq < MaxUnmountReq
     /\ \E c \in SessionClients, via \in Vias, at \in CleanupSteps \cup {None} :
          /\ "begun" \notin cSteps[c]
          /\ CleanupRun(c, via, at)
  \/ \E c \in SessionClients : UnmountAfterLeave(c)
  \/ /\ nreq < MaxUnmountReq
     /\ \E c \in SessionClients : SocketCloses(c)

UnmountSpec == Init /\ [][UnmountNext]_vars

\* ------------------------------------- two clients, candidates and leaving
\* The timeout of a held candidate ends and handleIceCandidate runs again
\* without finding a transport with a remote description: the else branch
\* calls setTimeout(() => handleIceCandidate(candidate, from), 1000) once
\* more.  Nothing counts the attempts and nothing cancels the timeout, also
\* not cleanup.
IceRetryWaits(c, w) ==
  /\ c \notin dropped
  /\ w \in iceWaiting[c]
  /\ ~RemoteSure(c, w.peer)
  /\ iceTurn' = [iceTurn EXCEPT ![c] = (@ + 1) % 2]
  /\ RelayQuiet
  /\ UNCHANGED <<cState, cUser, cKey, inbox, cParticipants, peerConnections,
                 timers, tasks, lastHandled, gotLeft, dropped, outbox, nsent,
                 candidates, cRecording>>
  /\ UNCHANGED <<coreSession, shareVars, cPending, cVia>>

\* The listeners of c's socket: the event at the head of the queue is handled.
Listens(c) ==
  \/ OnRoomUsers(c)
  \/ OnUserJoined(c)
  \/ OnUserLeft(c)
  \/ OnOffer(c)
  \/ OnAnswer(c)
  \/ HandleIceCandidate(c)

\* createOffer / createAnswer settle and the description is sent.
Settles(c) ==
  /\ nreq < MaxIceReq
  /\ \E x \in SessionClients : OfferReady(c, x) \/ AnswerReady(c, x)

IceNext ==
  \/ /\ \E c \in SessionClients : Connect(c)
     /\ UNCHANGED clientVars
  \/ /\ nreq < MaxIceReq
     /\ \E c \in SessionClients : TrioJoin(c)
  \/ \E c \in SessionClients : OnRoomUsers(c)
  \/ \E c \in SessionClients : OnUserJoined(c)
  \/ \E c \in SessionClients : OnUserLeft(c)
  \/ \E c \in SessionClients : OnOffer(c)
  \/ \E c \in SessionClients : OnAnswer(c)
  \/ \E c \in SessionClients : HandleIceCandidate(c)
  \/ \E c \in SessionClients : \E t \in timers[c] : TimerFires(c, t)
  \/ \E c \in SessionClients : Settles(c)
  \/ /\ nreq < MaxIceReq
     /\ \E c \in SessionClients, x \in SessionClients : Gathers(c, x)
  \/ \E c \in SessionClients : \E w \in iceWaiting[c] : IceRetry(c, w)
  \/ \E c \in SessionClients : \E w \in iceWaiting[c] : IceRetryWaits(c, w)
  \/ /\ nreq < MaxIceReq
     /\ \E c \in SessionClients : Cleanup(c)
  \/ /\ nreq < MaxIceReq
     /\ \E c \in SessionClients : SocketCloses(c)

\* What a callback of a client changes: the length of its event queue, its
\* timers, continuations, transports and held candidates, or the number of
\* requests the relay has handled.
progress ==
  <<[c \in Conn |-> Len(inbox[c])], nreq, timers, tasks, peerConnections,
    iceWaiting, iceTurn>>

\* Events are handled, timers fire and promises settle: the event loop runs
\* every callback that is due.  Joining, gathering and leaving are up to the
\* user and the network.
IceFair ==
  \A c \in SessionClients :
    /\ WF_progress(Listens(c))
    /\ WF_progress(\E t \in timers[c] : TimerFires(c, t))
    /\ WF_progress(Settles(c))
    /\ WF_progress(\E w \in iceWaiting[c] : IceRetry(c, w))
    /\ WF_progress(\E w \in iceWaiting[c] : IceRetryWaits(c, w))

IceSpec == Init /\ [][IceNext]_vars /\ IceFair

\* -------------------------------------------------------------- properties
\* The socket ids a room-users snapshot names.
SnapshotIds(m) == {q.socketId : q \in m.users}

Snapshots == {m \in lastEmit : m.ev = "room-users"}

IsOpen(x) == sockets[x] = "open"

\* The connections that joined key, have not left it and are connected.
JoinedAndOpen(key) == {x \in Conn : IsOpen(x) /\ key \in memberOf[x]}

C2_ExactlyOneUserLeft ==
  \A r \in Conn, x \in Conn :
    (IsOpen(r) /\ owed[r][x] > 0) => leftSeen[r][x] = owed[r][x]

\* C3: when a member A disconnects without emitting leave-room while other
\* members remain, the relay emits user-left for A and discards A's registry
\* entry, every remaining member receives exactly one user-left naming A, the
\* room entry still exists, and the member's user-left handler destroys
\* exactly one negotiation, the one keyed by A's connection id.
C3_DisconnectTearsDownOneNegotiation ==
  \A a \in dropped : cKey[a] # None =>
    /\ a \notin DOMAIN participants
    /\ \A r \in Conn \ {a} :
         (cState[r] = "joined" /\ owed[r][a] > 0) =>
           /\ leftSeen[r][a] = 1
           /\ gotLeft[r][a] <= 1
           /\ cKey[r] \in DOMAIN rooms
    /\ (lastHandled.ev = "user-left" /\ lastHandled.from = a) =>
         lastHandled.closed = {a}

\* Two connections that each sent one join-room for key, and no leave-room,
\* and are both connected.
JoinedOnce(x, key) ==
  /\ IsOpen(x)
  /\ joinHist[x].n = 1
  /\ x \in fresh
  /\ memberOf[x] = {key}

\* C11: of two connections that both joined the same room and stay
\* connected, exactly one has the other in its room-users snapshot, and the
\* other one was sent exactly one user-joined naming it, whichever of the two
\* join-room requests the relay handled first.
C11_ConcurrentJoinsSeeEachOther ==
  \A key \in MeetingKeys : \A x \in Conn : \A y \in Conn \ {x} :
    (JoinedOnce(x, key) /\ JoinedOnce(y, key)) =>
      /\ (y \in joinHist[x].snap) # (x \in joinHist[y].snap)
      /\ y \in joinHist[x].snap => joinHist[y].heard[x] = 1

\* C11 witness: both orders of the two join-room requests of c1 and c2 for
\* one generated key end in such a state; here c2 was handled second.
C11_Witness ==
  \E key \in GeneratedKeys :
    /\ JoinedOnce("c1", key) /\ JoinedOnce("c2", key)
    /\ "c1" \in joinHist["c2"].snap
    /\ joinHist["c1"].heard["c2"] = 1

\* The events in r's queue that came from s, oldest first.
FromSender(r, s) ==
  LET IsFrom(m) == m.from = s
  IN SelectSeq(inbox[r], IsFrom)

\* C12: for every sender S and recipient R the relay delivers the messages
\* of S to R in the order S emitted them; an ice-candidate of S never
\* overtakes an offer or answer S emitted before it.
C12_FifoPerSender ==
  \A r \in Conn, s \in Conn :
    LET q == FromSender(r, s)
    IN \A i \in 1..Len(q), j \in 1..Len(q) :
         i < j => q[i].body < q[j].body

\* C12 witness: R holds an offer of S followed by an ice-candidate of S that
\* S emitted after it, a message of S to somebody else having been emitted
\* in between.
C12_Witness ==
  \E r \in Conn, s \in Conn :
    LET q == FromSender(r, s)
    IN /\ Len(q) = 2
       /\ q[1].ev = "webrtc-offer" /\ q[1].body = 1
       /\ q[2].ev = "webrtc-ice-candidate" /\ q[2].body = 3

\* y received x in its room-users snapshot: y joined the room after x.
JoinedAfter(y, x) == x # y /\ x \in joinHist[y].snap

HasLocalOffer(x, y) ==
  y \in DOMAIN peerConnections[x] /\ peerConnections[x][y] = "have-local-offer"

\* C13: in every pair only the participant that joined later, the one that
\* received the other in its room-users snapshot, sends a webrtc-offer; the
\* earlier one creates its negotiation without offering; no state has both
\* sides of a pair holding an unanswered local offer toward each other.
C13_OnlyLaterJoinerOffers ==
  /\ lastReq.type = "webrtc-offer" =>
       /\ JoinedAfter(lastReq.sock, lastReq.to)
       /\ ~JoinedAfter(lastReq.to, lastReq.sock)
  /\ \A x \in Conn, y \in Conn :
       /\ HasLocalOffer(x, y) => JoinedAfter(x, y)
       /\ [kind |-> "offer", peer |-> y] \in tasks[x] => JoinedAfter(x, y)
       /\ ~(HasLocalOffer(x, y) /\ HasLocalOffer(y, x))

\* C13 witness: x, the earlier of a pair, holds a negotiation with y that it
\* created without offering, while y's offer toward x is unanswered.
C13_Witness ==
  \E x \in Conn, y \in Conn :
    /\ JoinedAfter(y, x)
    /\ HasLocalOffer(y, x)
    /\ x \in DOMAIN peerConnections[y]
    /\ y \in DOMAIN peerConnections[x]
    /\ peerConnections[x][y] = NewPc
    /\ tasks[x] = {}

\* C14 (as stated): when A, B, C join one room in that order, the earlier
\* participant is the initiator, the sender of the offer, toward the later
\* one (A toward B; A and B toward C) and the later one is the responder.
C14_EarlierParticipantInitiates ==
  /\ lastReq.type = "webrtc-offer" => JoinedAfter(lastReq.to, lastReq.sock)
  /\ lastReq.type = "webrtc-answer" => JoinedAfter(lastReq.sock, lastReq.to)

\* C14 (amended): the roles are the other way round.  In every pair the
\* later joiner is the initiator and the earlier one the responder: the
\* timers the later one sets for the earlier one are initiator timers and
\* those of the earlier one are not, an offer goes from the later to the
\* earlier and an answer from the earlier to the later.
C14_LaterJoinerInitiates ==
  /\ lastReq.type = "webrtc-offer" => JoinedAfter(lastReq.sock, lastReq.to)
  /\ lastReq.type = "webrtc-answer" => JoinedAfter(lastReq.to, lastReq.sock)
  /\ \A x \in Conn, y \in Conn :
       JoinedAfter(y, x) =>
         /\ \A t \in timers[y] : t.peer = x => t.init
         /\ \A t \in timers[x] : t.peer = y => ~t.init
         /\ [kind |-> "answer", peer |-> x] \notin tasks[y]
         /\ [kind |-> "offer", peer |-> y] \notin tasks[x]

\* C14 witness: c1, c2, c3 joined in that order, c3 has sent its offer to c1
\* and is preparing the one for c2, while c2 created its negotiation with c3
\* without offering.
C14_Witness ==
  /\ JoinedAfter("c2", "c1")
  /\ JoinedAfter("c3", "c1")
  /\ JoinedAfter("c3", "c2")
  /\ HasLocalOffer("c3", "c1")
  /\ [kind |-> "offer", peer |-> "c2"] \in tasks["c3"]
  /\ "c3" \in DOMAIN peerConnections["c2"]
  /\ peerConnections["c2"]["c3"] = NewPc
  /\ [kind |-> "offer", peer |-> "c3"] \notin tasks["c1"] \cup tasks["c2"]
  /\ lastReq.type = "webrtc-offer"

\* Exactly one negotiation per unordered pair, a transport on each side, all
\* in the stable state.
TrioStable ==
  \A c \in Conn :
    /\ DOMAIN peerConnections[c] = Conn \ {c}
    /\ \A x \in Conn \ {c} : peerConnections[c][x] = "stable"

\* C15: when A, B, C with distinct user ids join one room in that order and
\* none leaves, then under fair delivery and timer firing exactly three
\* negotiations exist and each eventually reaches the stable state on both
\* sides, however the ice-candidate messages interleave with offer and answer.
C15_TrioReachesStable == <>[]TrioStable

\* C15 witness: the three negotiations are stable on both sides, a
\* candidate was sent and nothing is left to deliver or to retry.
C15_Witness ==
  /\ TrioStable
  /\ \E c \in Conn : \E x \in Conn \ {c} : candidates[c][x] >= 1
  /\ \A c \in Conn : inbox[c] = <<>> /\ tasks[c] = {}

\* Client c has handled every event it was sent and every timer it set.
Settled(c) == cState[c] = "joined" /\ inbox[c] = <<>> /\ timers[c] = {}

\* C16: for every two distinct connections that are members of the same
\* room, each side spawns a negotiation for the other (the later joiner from
\* its snapshot, the earlier one from user-joined), whatever user ids the two
\* report, the same user id included.
C16_EveryPairSpawnsNegotiation ==
  \A x \in Conn, y \in Conn :
    (JoinedAfter(y, x) /\ Settled(x) /\ Settled(y) /\ cKey[x] = cKey[y]) =>
      /\ x \in DOMAIN peerConnections[y]
      /\ y \in DOMAIN peerConnections[x]

\* Every event the relay sent to a joined client has been handled.
Delivered == \A c \in Conn : inbox[c] = <<>>

\* The clients in a meeting are logged in as different users.
DistinctUsers ==
  \A x \in Conn, y \in Conn :
    (x # y /\ cState[x] = "joined" /\ cState[y] = "joined") =>
      cUser[x] # cUser[y]

\* C17: once every in-flight message has been delivered, the key set of each
\* joined client's participants map equals the set of connection ids
\* registered in its room minus its own id, for clients with distinct user
\* ids and every interleaving of joins, leaves and disconnects.
C17_LocalViewMatchesRegistry ==
  (Delivered /\ DistinctUsers) =>
    \A c \in Conn :
      cState[c] = "joined" =>
        /\ cKey[c] \in DOMAIN rooms
        /\ cParticipants[c] = rooms[cKey[c]] \ {c}

\* C17 witness: everything is delivered and a client still holds another
\* one in its map, having forgotten one that left.
C17_Witness ==
  /\ Delivered /\ DistinctUsers
  /\ \E c \in Conn :
       /\ cState[c] = "joined"
       /\ cParticipants[c] # {}
       /\ \E x \in Conn : gotLeft[c][x] = 1

\* C18: once every in-flight message has been delivered, all clients joined
\* to the same room hold the same recording indicator, clients that joined
\* between a start-recording and the matching stop-recording included.
C18_RecordingIndicatorAgrees ==
  Delivered =>
    \A x \in Conn, y \in Conn :
      (cState[x] = "joined" /\ cState[y] = "joined" /\ cKey[x] = cKey[y]) =>
        cRecording[x] = cRecording[y]

\* The record of the latest joiner as the registry holds it and as the
\* room-users and user-joined events of the join report it.
JoinerRecords ==
  {participants[lastReq.sock]}
  \cup UNION {{q \in m.users : q.socketId = lastReq.sock} :
                m \in {e \in lastEmit : e.ev \in {"room-users", "user-joined"}}}

\* C19: the audioEnabled and videoEnabled flags the registry stores for a
\* participant and reports in room-users and user-joined equal the flags
\* the client sent in its join-room request, for true and for false.
C19_FlagsAsSent ==
  lastReq.type = "join-room" =>
    \A q \in JoinerRecords :
      /\ q.audioEnabled = lastReq.body[1]
      /\ q.videoEnabled = lastReq.body[2]

\* The account of the token a socket presents in its handshake auth.
TokenUser(s) == IF s = "c1" THEN "u1" ELSE "u2"

IdentityEvents ==
  {"user-joined", "chat-message", "recording-started", "recording-stopped"}

\* C20: the user identity the relay attaches to a participant and broadcasts
\* in user-joined, chat-message and recording-started/stopped is the one
\* authenticated for the connection, whatever userInfo the client put in
\* its join-room payload.
C20_BroadcastIdentityAuthenticated ==
  \A m \in lastEmit :
    m.ev \in IdentityEvents => m.userId = TokenUser(lastReq.sock)

\* C4 (as stated): a directed message is delivered to at most one
\* connection, the one whose id is the message's `to`.
C4_DirectedToOneConnection ==
  lastReq.type \in DirectedTypes =>
    /\ Cardinality({m.to : m \in lastEmit}) <= 1
    /\ {m.to : m \in lastEmit} \subseteq {lastReq.to}

\* C5: every relayed offer, answer and ice-candidate carries as `from` the
\* id of the socket that emitted it, whatever sender the payload names.
C5_FromIsEmitter ==
  \A m \in lastEmit :
    m.ev \in DirectedTypes =>
      /\ lastReq.type = m.ev
      /\ m.from = lastReq.sock

\* C5 witness: a directed message was delivered whose payload names a
\* sender other than the emitting socket.
C5_Witness ==
  \E m \in lastEmit :
    m.ev \in DirectedTypes /\ m.body # lastReq.sock

\* C6 (as stated): a directed message whose `to` names a connection that is
\* not in the registry reaches no connection other than the named one,
\* sends no error to the sender and leaves rooms and participants unchanged.
C6_UnregisteredTargetStep ==
  (/\ nreq' # nreq
   /\ lastReq'.type \in DirectedTypes
   /\ lastReq'.to \in Conn \ {lastReq'.sock}
   /\ lastReq'.to \notin DOMAIN participants)
  => /\ {m.to : m \in lastEmit'} \subseteq {lastReq'.to}
     /\ \A m \in lastEmit' : m.ev # "error"
     /\ rooms' = rooms
     /\ participants' = participants

C6_UnregisteredTargetNotMisdelivered == [][C6_UnregisteredTargetStep]_vars

\* The registry members of the room the socket s is registered in.
RoomOf(s) ==
  IF s \in DOMAIN participants /\ participants[s].meetingKey \in DOMAIN rooms
    THEN rooms[participants[s].meetingKey]
    ELSE {}

\* C7 (as stated): a room event caused by S (chat, screen-share, recording,
\* user-left from leave-room) is delivered only to members of the room S is
\* registered in, whatever meetingKey the request carries.
C7_RoomEventStep ==
  (/\ nreq' # nreq
   /\ lastReq'.type \in RoomEventTypes \cup {"leave-room"})
  => {m.to : m \in lastEmit'} \subseteq RoomOf(lastReq'.sock)

C7_RoomEventsStayInRoom == [][C7_RoomEventStep]_vars

\* C8 (as stated): every room key in the registry has at least one member
\* that is a connected socket.
C8_NoOrphanRoom ==
  \A k \in DOMAIN rooms : \E x \in rooms[k] : IsOpen(x)

\* C9 (as stated): a socket id is in at most one room's set, and every id in
\* the set of room k has a participants entry whose meetingKey is k.
C9_OneRoomPerConnection ==
  /\ \A x \in Conn :
       Cardinality({k \in DOMAIN rooms : x \in rooms[k]}) <= 1
  /\ \A k \in DOMAIN rooms : \A x \in rooms[k] :
       x \in DOMAIN participants /\ participants[x].meetingKey = k

\* C10 (as stated): once the last member of a room has left or disconnected
\* the room's entry is gone, and a join-room into a room nobody else is in
\* makes an entry whose member set is the joiner alone, with a snapshot that
\* names nobody else.
C10_FreshRoomAfterLastLeaves ==
  /\ \A k \in MeetingKeys : JoinedAndOpen(k) = {} => k \notin DOMAIN rooms
  /\ (lastReq.type = "join-room"
        /\ JoinedAndOpen(lastReq.key) = {lastReq.sock})
     => /\ rooms[lastReq.key] = {lastReq.sock}
        /\ \A m \in Snapshots : SnapshotIds(m) \subseteq {lastReq.sock}

CleanedUp(c) == cState[c] = "gone" /\ c \notin dropped

\* C23: after cleanup has run the client holds no negotiation, none is
\* created afterwards, not even by a createPeerConnection that a timer had
\* scheduled before cleanup ran, and the client sends no offer, answer or
\* candidate any more.
C23_NothingAfterCleanup ==
  /\ \A c \in Conn : CleanedUp(c) => peerConnections[c] = EmptyMap
  /\ lastReq.type \in DirectedTypes => ~CleanedUp(lastReq.sock)

\* createPeerConnection(x) is called in this step of c: a timer for x fires,
\* or handleOffer takes an offer of x.
CreateCalled(c, x) ==
  /\ cState'[c] = cState[c]
  /\ \/ \E t \in timers[c] \ timers'[c] : t.peer = x
     \/ /\ inbox[c] # <<>>
        /\ Head1(c).ev = "webrtc-offer" /\ Head1(c).from = x
        /\ inbox'[c] = Tail(inbox[c])

\* C26: a client holds at most one negotiation per remote connection id: a
\* createPeerConnection call for an id that already has one, from a
\* room-users or user-joined timer or from an incoming offer, keeps the
\* existing transport in its state, starts no offer and sends nothing.
C26_OneNegotiationPerPeer ==
  [][\A c \in Conn, x \in Conn :
       (x \in DOMAIN peerConnections[c] /\ CreateCalled(c, x)) =>
         /\ x \in DOMAIN peerConnections'[c]
         /\ peerConnections'[c][x] = peerConnections[c][x]
         /\ ([kind |-> "offer", peer |-> x] \in tasks'[c] =>
               [kind |-> "offer", peer |-> x] \in tasks[c])
         /\ lastReq' = lastReq]_vars

\* C26 witness: c heard x join and its timer for x has fired, x's offer has
\* been handled too, and the one negotiation c holds with x is stable.
C26_Witness ==
  \E c \in Conn, x \in Conn :
    /\ JoinedAfter(x, c)
    /\ x \in cParticipants[c]
    /\ \A t \in timers[c] : t.peer # x
    /\ x \in DOMAIN peerConnections[c]
    /\ peerConnections[c][x] = "stable"
    /\ c \in DOMAIN peerConnections[x]

\* Nothing is left for c to handle: no event, no timer, no continuation.
Quiescent(c) ==
  cState[c] = "joined" /\ inbox[c] = <<>> /\ timers[c] = {} /\ tasks[c] = {}

\* C28: once a client has handled user-left for X and every pending timer
\* has fired, it holds no negotiation keyed by X; at quiescence the keys of
\* its negotiations are among the keys of its participants map, also when
\* user-left arrives within the 500 ms before createPeerConnection.
C28_NoNegotiationForDeparted ==
  \A c \in Conn :
    Quiescent(c) =>
      /\ DOMAIN peerConnections[c] \subseteq cParticipants[c]
      /\ \A x \in Conn :
           (gotLeft[c][x] > 0 /\ x \notin cParticipants[c]) =>
             x \notin DOMAIN peerConnections[c]

\* C22: cleanup performs all four steps, stopping the local tracks, closing
\* every transport, emitting leave-room and disconnecting, even when an
\* earlier step throws: once it was called, the four steps have run, no
\* local track is live and the relay no longer lists the client.
C22_CleanupRunsAllSteps ==
  \A c \in Conn :
    "begun" \in cSteps[c] =>
      /\ CleanupSteps \subseteq cSteps[c]
      /\ cMedia[c] # "live"
      /\ c \notin DOMAIN participants

\* The client's connection to the relay dropped and the page is still open.
LostConnection(c) == cState[c] = "joined" /\ sockets[c] = "closed"

\* C24: when the client's connection to the relay drops or fails, the whole
\* local session is torn down, every negotiation closed and the local media
\* stopped, and the client is back at the pre-session view.
C24_ConnectionLossTearsDown ==
  \A c \in Conn :
    LostConnection(c) =>
      /\ peerConnections[c] = EmptyMap
      /\ cMedia[c] # "live"
      /\ cStatus[c] = "dashboard"

\* C25: a rejected getUserMedia does not block joining: the client still
\* emits join-room and shows the connected status, with no local stream;
\* a failed meeting lookup or a later step that throws aborts the join, no
\* join-room is emitted and the client is sent back to the dashboard.
C25_MediaFailureDoesNotBlockJoin ==
  \A c \in Conn :
    /\ cEntry[c] = "media" =>
         /\ joinHist[c].n = 1
         /\ cState[c] = "joined" => (cStatus[c] = "connected" /\ cMedia[c] = "none")
    /\ cEntry[c] \in {"lookup", "connect"} =>
         /\ joinHist[c].n = 0
         /\ cState[c] = "gone"
         /\ cStatus[c] = "dashboard"

\* C25 witness: a client whose camera and microphone were denied is
\* registered in the room, connected, and has heard of another participant.
C25_Witness ==
  \E c \in Conn :
    /\ cEntry[c] = "media"
    /\ cState[c] = "joined"
    /\ cStatus[c] = "connected" /\ cMedia[c] = "none"
    /\ c \in DOMAIN participants
    /\ cParticipants[c] # {}

\* C27: for each negotiation the candidates received from the peer are
\* given to the transport in the order they were received, which is the
\* order the peer sent them in: a candidate that arrives once the remote
\* description is set never overtakes one that arrived before.
C27_CandidatesAppliedInOrder ==
  \A c \in Conn, x \in Conn :
    \A i \in 1..Len(cApplied[c][x]), j \in 1..Len(cApplied[c][x]) :
      i < j => cApplied[c][x][i] < cApplied[c][x][j]

\* C29: when a transport reports 'failed' the client makes one restart
\* attempt and keeps the negotiation; when it reports 'failed' again after
\* that attempt the negotiation is abandoned.
C29_SecondFailureAbandons ==
  \A c \in Conn, x \in Conn :
    /\ cFailed[c][x] >= 1 => cRestarts[c][x] = 1
    /\ cFailed[c][x] = 1 => x \in DOMAIN peerConnections[c]
    /\ cFailed[c][x] >= 2 => x \notin DOMAIN peerConnections[c]

\* C30: startScreenShare and stopScreenShare leave the negotiations as they
\* are: no transport is closed or created, no signaling or connectivity
\* state changes, no offer is started and no offer, answer or candidate is
\* sent; the one request made is the screen-share broadcast, with any
\* number of negotiations, zero included.
C30_ScreenShareKeepsNegotiations ==
  [][\A c \in Conn :
       cSharing'[c] # cSharing[c] =>
         /\ peerConnections' = peerConnections
         /\ tasks' = tasks /\ timers' = timers
         /\ cFailed' = cFailed /\ cRestarts' = cRestarts
         /\ lastReq'.sock = c /\ lastReq'.key = cKey[c]
         /\ lastReq'.type = IF cSharing[c] THEN "stop-screen-share"
                                           ELSE "start-screen-share"
         /\ participants'[c].isScreenSharing = cSharing'[c]]_vars

\* C30 witness: a client with a stable negotiation has just started to
\* share its screen, and its peer shares too.
C30_Witness ==
  \E c \in Conn, x \in Conn :
    /\ cSharing[c] /\ cSharing[x]
    /\ lastReq.type = "start-screen-share" /\ lastReq.sock = c
    /\ x \in DOMAIN peerConnections[c]
    /\ peerConnections[c][x] = "stable"

\* ---------------------------------------------------------- C31 .. C35
\* C31: while a client shares its screen, the video track of every transport
\* it holds is the screen track, those created after the share began (a
\* peer that joined during the share) included.
C31_ScreenTrackOnEveryNegotiation ==
  \A c \in Conn :
    cSharing[c] =>
      \A x \in DOMAIN peerConnections[c] : cTracks[c][x] = "screen"

\* A relay request just made by c.
Emitted(c, type) ==
  nreq' = nreq + 1 /\ lastReq'.sock = c /\ lastReq'.type = type

\* C32: a client's start-screen-share and stop-screen-share requests
\* alternate, the first being a start: a start is emitted only while not
\* sharing and a stop only while sharing, whether the share is ended in the
\* application or by the end of the screen source.
C32_ShareRequestsAlternate ==
  [][\A c \in Conn :
       /\ Emitted(c, "start-screen-share") => ~cSharing[c]
       /\ Emitted(c, "stop-screen-share") => cSharing[c]]_vars

\* C33: every candidate a client holds back is in the end applied or dropped:
\* from some moment on no candidate is waiting for another try, whether the
\* sender's transport never gets a remote description, was destroyed by
\* user-left, or the client itself has left.
C33_HeldCandidatesSettle ==
  <>[](\A c \in Conn : iceWaiting[c] = {})

\* C34: an instance whose cleanup has run emits no join-room afterwards,
\* also not when cleanup ran while initializeMeeting was waiting for the
\* meeting lookup or the media.
C34_NoJoinAfterCleanup ==
  [][\A c \in Conn :
       Emitted(c, "join-room") => "begun" \notin cSteps[c]]_vars

\* The second run of cleanup for c: the unmount after leaveMeeting.
SecondRun(c) == cVia[c] = {"button"} /\ cVia'[c] = Vias

\* C35: when cleanup runs twice for one session, by leaveMeeting and then by
\* the unmount, the second run sends nothing to the relay and the relay's
\* state stays as it is; a leave-room request comes from the first run of
\* cleanup only, so the relay gets at most one per session.
C35_SecondCleanupIsSilent ==
  [][\A c \in Conn :
       /\ SecondRun(c) => UNCHANGED <<relayVars, historyVars, inbox>>
       /\ Emitted(c, "leave-room") => cVia[c] = {}]_vars

\* C35 witness: a client left by the button and was unmounted, both runs
\* of cleanup are over; the relay has dropped it, its socket is closed and
\* the member that stays was told once that it left.
C35_Witness ==
  \E c \in Conn, r \in Conn :
    /\ cVia[c] = Vias
    /\ c \notin DOMAIN participants
    /\ sockets[c] = "closed"
    /\ r \in DOMAIN participants
    /\ leftSeen[r][c] = 1

====
